---- MODULE Spec2Model ----
(***************************************************************************)
(* tinyvm: a byte-code virtual machine with eight 16-bit registers, a      *)
(* bounds-checked linear memory and a fetch-decode-execute step.           *)
(*                                                                         *)
(* The model follows src/src/memory.rs (Addressable, LinearMemory) and     *)
(* src/src/vm.rs (Register, Op, parse_instruction, Machine).  Every call   *)
(* the caller makes is one action; it appends to `log` a record holding    *)
(* the call, its result and the machine state before and after it, so that *)
(* properties of a call or of consecutive calls are state predicates.      *)
(*                                                                         *)
(* Rust's +, -, += and -= on u16 panic on overflow when the build has      *)
(* overflow checks (the default of `cargo build` and `cargo test`) and     *)
(* wrap otherwise (`--release`).  The build is the variable                *)
(* overflow_checks, chosen at Init and never changed.                      *)
(***************************************************************************)
EXTENDS Integers, Sequences, FiniteSets, TLC

VARIABLES registers, bytes, overflow_checks, log

vars == <<registers, bytes, overflow_checks, log>>

----------------------------------------------------------------------------
(* Bounds of the model *)

\* capacity of the LinearMemory under test (the n of LinearMemory::new)
MemSize == 8
\* calls per run of the memory capability
MaxMemCalls == 2
\* calls per run of a caller using the stack primitives
MaxStackCalls == 5
\* calls per run of a caller stepping the machine
MaxStepCalls == 4
\* step calls per run of a loaded program
MaxRunSteps == 6
\* step calls per run of a register test
MaxRegSteps == 2
\* calls per run of a caller writing words at the end of memory
MaxPartialCalls == 5
\* copy calls per run, and the largest byte count copied
MaxCopyCalls == 1
MaxCount == 4

----------------------------------------------------------------------------
(* Widths *)

Byte == 2^8
Word == 2^16

----------------------------------------------------------------------------
(* Results: Option<u8>, Option<u16>, bool, Result<_, String>, and a panic *)

None == [kind |-> "None", val |-> 0, msg |-> <<>>]
Some(x) == [kind |-> "Some", val |-> x, msg |-> <<>>]
Bool(b) == [kind |-> IF b THEN "true" ELSE "false", val |-> 0, msg |-> <<>>]
Ok(x) == [kind |-> "Ok", val |-> x, msg |-> <<>>]
Err(m) == [kind |-> "Err", val |-> 0, msg |-> m]
Panic(m) == [kind |-> "panic", val |-> 0, msg |-> m]

\* u16 addition as the build compiles it
add_u16(x, y, checks) ==
    IF x + y < Word THEN Ok(x + y)
    ELSE IF checks THEN Panic(<<"attempt to add with overflow">>)
    ELSE Ok((x + y) % Word)

\* u16 subtraction as the build compiles it
sub_u16(x, y, checks) ==
    IF x >= y THEN Ok(x - y)
    ELSE IF checks THEN Panic(<<"attempt to subtract with overflow">>)
    ELSE Ok((x - y) % Word)

----------------------------------------------------------------------------
(* LinearMemory and the Addressable capability (memory.rs) *)

size == MemSize

\* LinearMemory::new: vec![0; n]
NewBytes == [i \in 0 .. size - 1 |-> 0]

read(bytes_, address) ==
    IF address < size THEN Some(bytes_[address]) ELSE None

\* the bounds check written as address <= size
write_le(bytes_, address, value) ==
    IF address <= size
    THEN [bytes |-> [i \in DOMAIN bytes_ |->
                        IF i = address THEN value ELSE bytes_[i]],
          res |-> Bool(TRUE)]
    ELSE [bytes |-> bytes_, res |-> Bool(FALSE)]

write(bytes_, address, value) ==
    IF address < size
    THEN [bytes |-> [bytes_ EXCEPT ![address] = value], res |-> Bool(TRUE)]
    ELSE [bytes |-> bytes_, res |-> Bool(FALSE)]

\* the two bytes composed big-endian
read2_be(bytes_, address, checks) ==
    LET r0 == read(bytes_, address) IN
    IF r0.kind = "Some"
    THEN LET a1 == add_u16(address, 1, checks) IN
         IF a1.kind = "panic" THEN a1
         ELSE LET r1 == read(bytes_, a1.val) IN
              IF r1.kind = "Some"
              THEN Some(r1.val + r0.val * Byte)
              ELSE None
    ELSE None

\* x0 | (x1 << 8); address + 1 is evaluated only after the first read succeeded
read2(bytes_, address, checks) ==
    LET r0 == read(bytes_, address) IN
    IF r0.kind = "Some"
    THEN LET a1 == add_u16(address, 1, checks) IN
         IF a1.kind = "panic" THEN a1
         ELSE LET r1 == read(bytes_, a1.val) IN
              IF r1.kind = "Some"
              THEN Some(r0.val + r1.val * Byte)
              ELSE None
    ELSE None

\* both addresses are checked before either byte is written
write2_atomic(bytes_, address, value, checks) ==
    LET lower == value % Byte
        upper == (value \div Byte) % Byte
    IN  IF address < size /\ address + 1 < size
        THEN write(write(bytes_, address, lower).bytes, address + 1, upper)
        ELSE [bytes |-> bytes_, res |-> Bool(FALSE)]

\* write(address, lower) && write(address + 1, upper): the second write, and
\* address + 1, are evaluated only when the first write returned true
write2(bytes_, address, value, checks) ==
    LET lower == value % Byte
        upper == (value \div Byte) % Byte
        w0 == write(bytes_, address, lower)
    IN  IF w0.res.kind = "true"
        THEN LET a1 == add_u16(address, 1, checks) IN
             IF a1.kind = "panic" THEN [bytes |-> w0.bytes, res |-> a1]
             ELSE write(w0.bytes, a1.val, upper)
        ELSE w0

\* for i in 0..n: read(from + i as u16), then write(to + i as u16, x);
\* return false at the first of them that fails, true after the loop.
\* src is the image the bytes are read from.
RECURSIVE copy_loop(_, _, _, _, _, _, _)
copy_loop(bytes_, src, from, to, n, i, checks) ==
    IF i >= n THEN [bytes |-> bytes_, res |-> Bool(TRUE)]
    ELSE LET fa == add_u16(from, i % Word, checks) IN
         IF fa.kind = "panic" THEN [bytes |-> bytes_, res |-> fa]
         ELSE LET x == read(IF src = <<>> THEN bytes_ ELSE src, fa.val) IN
              IF x.kind # "Some" THEN [bytes |-> bytes_, res |-> Bool(FALSE)]
              ELSE LET ta == add_u16(to, i % Word, checks) IN
                   IF ta.kind = "panic" THEN [bytes |-> bytes_, res |-> ta]
                   ELSE LET w == write(bytes_, ta.val, x.val) IN
                        IF w.res.kind = "false" THEN w
                        ELSE copy_loop(w.bytes, src, from, to, n, i + 1,
                                       checks)

\* the source bytes are taken from the memory as it was before the call
copy_buffered(bytes_, from, to, n, checks) ==
    copy_loop(bytes_, bytes_, from, to, n, 0, checks)

\* Addressable::copy: each byte is read from the memory as it is at that
\* iteration
copy(bytes_, from, to, n, checks) ==
    copy_loop(bytes_, <<>>, from, to, n, 0, checks)

----------------------------------------------------------------------------
(* Register (vm.rs): the index of each register in Machine::registers *)

A == 0
B == 1
C == 2
M == 3
SP == 4
PC == 5
BP == 6
FLAGS == 7

\* Register::from_u8: Some(register) for the eight indices, None otherwise
from_u8(value_) ==
    IF value_ \in {A, B, C, M, SP, PC, BP, FLAGS} THEN Some(value_) ELSE None

----------------------------------------------------------------------------
(* Op (vm.rs) *)

\* the variants of the repr(u8) enum Op in declaration order
OpOrder == <<"Nop", "Push", "PopRegister", "AddStack", "AddRegister", "Mov">>

\* Op::value: the u8 tag of a variant, its position in the declaration
value(tag_) == (CHOOSE i \in DOMAIN OpOrder : OpOrder[i] = tag_) - 1

MkOp(tag_, arg_, reg1_, reg2_) ==
    [tag |-> tag_, arg |-> arg_, reg1 |-> reg1_, reg2 |-> reg2_]

OkOp(o) == [kind |-> "Ok", op |-> o, msg |-> <<>>]
ErrOp(m) == [kind |-> "Err", op |-> MkOp("none", 0, 0, 0), msg |-> m]
NoDec == [kind |-> "none", op |-> MkOp("none", 0, 0, 0), msg |-> <<>>]

\* format!("{:X}", n): upper-case hexadecimal, no leading zeros
HexDigits ==
    <<"0", "1", "2", "3", "4", "5", "6", "7",
      "8", "9", "A", "B", "C", "D", "E", "F">>

RECURSIVE Hex(_)
Hex(n) ==
    IF n < 16 THEN <<HexDigits[n + 1]>>
    ELSE Hex(n \div 16) \o <<HexDigits[(n % 16) + 1]>>

\* the register index taken from the whole high byte (mask 0xff00)
parse_instruction_regbits8(ins) ==
    LET op == ins % Byte IN
    CASE op = value("Nop") -> OkOp(MkOp("Nop", 0, 0, 0))
      [] op = value("Push") -> OkOp(MkOp("Push", (ins \div Byte) % Byte, 0, 0))
      [] op = value("PopRegister") ->
            LET reg == (ins \div Byte) % Byte
                r == from_u8(reg)
            IN  IF r.kind = "Some"
                THEN OkOp(MkOp("PopRegister", 0, r.val, 0))
                ELSE ErrOp(<<"Unknown register 0x">> \o Hex(reg))
      [] op = value("AddStack") -> OkOp(MkOp("AddStack", 0, 0, 0))
      [] op = value("AddRegister") -> OkOp(MkOp("AddRegister", 0, A, B))
      [] op = value("Mov") -> OkOp(MkOp("Mov", 0, A, B))
      [] OTHER -> ErrOp(<<"Unknown instruction 0x">> \o Hex(op))

\* AddRegister and Mov take their operands from the word: dst from bits
\* 8-11, src from bits 12-15
parse_instruction_operands(ins) ==
    LET op == ins % Byte
        dst == ((ins \div Byte) % 16) % 8
        src == ((ins \div (16 * Byte)) % 16) % 8
    IN
    CASE op = value("Nop") -> OkOp(MkOp("Nop", 0, 0, 0))
      [] op = value("Push") -> OkOp(MkOp("Push", (ins \div Byte) % Byte, 0, 0))
      [] op = value("PopRegister") ->
            LET reg == (ins \div Byte) % 16
                r == from_u8(reg)
            IN  IF r.kind = "Some"
                THEN OkOp(MkOp("PopRegister", 0, r.val, 0))
                ELSE ErrOp(<<"Unknown register 0x">> \o Hex(reg))
      [] op = value("AddStack") -> OkOp(MkOp("AddStack", 0, 0, 0))
      [] op = value("AddRegister") -> OkOp(MkOp("AddRegister", 0, dst, src))
      [] op = value("Mov") -> OkOp(MkOp("Mov", 0, dst, src))
      [] OTHER -> ErrOp(<<"Unknown instruction 0x">> \o Hex(op))

\* op = ins & 0xff; arg = (ins & 0xff00) >> 8; reg = (ins & 0xf00) >> 8
parse_instruction(ins) ==
    LET op == ins % Byte IN
    CASE op = value("Nop") -> OkOp(MkOp("Nop", 0, 0, 0))
      [] op = value("Push") -> OkOp(MkOp("Push", (ins \div Byte) % Byte, 0, 0))
      [] op = value("PopRegister") ->
            LET reg == (ins \div Byte) % 16
                r == from_u8(reg)
            IN  IF r.kind = "Some"
                THEN OkOp(MkOp("PopRegister", 0, r.val, 0))
                ELSE ErrOp(<<"Unknown register 0x">> \o Hex(reg))
      [] op = value("AddStack") -> OkOp(MkOp("AddStack", 0, 0, 0))
      [] op = value("AddRegister") -> OkOp(MkOp("AddRegister", 0, A, B))
      [] op = value("Mov") -> OkOp(MkOp("Mov", 0, A, B))
      [] OTHER -> ErrOp(<<"Unknown instruction 0x">> \o Hex(op))

----------------------------------------------------------------------------
(* Machine (vm.rs).  Each operation maps the machine state to the state it  *)
(* leaves and its result.                                                   *)

NewRegisters == [r \in 0 .. 7 |-> 0]

Out(regs, bytes_, res_) == [registers |-> regs, bytes |-> bytes_, res |-> res_]

\* the read value is returned without committing SP -= 2
pop_no_commit(regs, bytes_, checks) ==
    LET sp == sub_u16(regs[SP], 2, checks) IN
    IF sp.kind = "panic" THEN Out(regs, bytes_, sp)
    ELSE LET r == read2(bytes_, sp.val, checks) IN
         CASE r.kind = "panic" -> Out(regs, bytes_, r)
           [] r.kind = "Some" -> Out(regs, bytes_, Ok(r.val))
           [] OTHER -> Out(regs, bytes_, Err(<<"Stack underflow">>))

\* let sp = SP - 2; read2(sp); on Some: SP -= 2, Ok(v); else Err
pop(regs, bytes_, checks) ==
    LET sp == sub_u16(regs[SP], 2, checks) IN
    IF sp.kind = "panic" THEN Out(regs, bytes_, sp)
    ELSE LET r == read2(bytes_, sp.val, checks) IN
         CASE r.kind = "panic" -> Out(regs, bytes_, r)
           [] r.kind = "Some" ->
                Out([regs EXCEPT ![SP] = sp.val], bytes_, Ok(r.val))
           [] OTHER -> Out(regs, bytes_, Err(<<"Stack underflow">>))

\* SP is advanced before the write is known to have succeeded
push_sp_first(regs, bytes_, value_, checks) ==
    LET sp == regs[SP]
        n == add_u16(sp, 2, checks)
        w == write2(bytes_, sp, value_, checks)
    IN  CASE n.kind = "panic" -> Out(regs, bytes_, n)
          [] w.res.kind = "panic" -> Out(regs, w.bytes, w.res)
          [] w.res.kind = "false" ->
                Out([regs EXCEPT ![SP] = n.val], w.bytes,
                    Err(<<"Stack overflow">>))
          [] OTHER -> Out([regs EXCEPT ![SP] = n.val], w.bytes, Ok(0))

\* SP is advanced first and the word is written at the new SP
push_pre_increment(regs, bytes_, value_, checks) ==
    LET n == add_u16(regs[SP], 2, checks) IN
    IF n.kind = "panic" THEN Out(regs, bytes_, n)
    ELSE LET w == write2(bytes_, n.val, value_, checks) IN
         CASE w.res.kind = "panic" -> Out(regs, w.bytes, w.res)
           [] w.res.kind = "false" ->
                 Out(regs, w.bytes, Err(<<"Stack overflow">>))
           [] OTHER -> Out([regs EXCEPT ![SP] = n.val], w.bytes, Ok(0))

\* write2(SP, value); on false: Err; else SP += 2, Ok
push(regs, bytes_, value_, checks) ==
    LET sp == regs[SP]
        w == write2(bytes_, sp, value_, checks)
    IN  CASE w.res.kind = "panic" -> Out(regs, w.bytes, w.res)
          [] w.res.kind = "false" -> Out(regs, w.bytes, Err(<<"Stack overflow">>))
          [] OTHER ->
                LET n == add_u16(sp, 2, checks) IN
                IF n.kind = "panic" THEN Out(regs, w.bytes, n)
                ELSE Out([regs EXCEPT ![SP] = n.val], w.bytes, Ok(0))

\* Mov copies its first register into its second
execute_mov_swapped(op, regs, bytes_, checks) ==
    CASE op.tag = "Nop" -> Out(regs, bytes_, Ok(0))
      [] op.tag = "Push" -> push(regs, bytes_, op.arg, checks)
      [] op.tag = "PopRegister" ->
            LET p == pop(regs, bytes_, checks) IN
            IF p.res.kind = "Ok"
            THEN Out([p.registers EXCEPT ![op.reg1] = p.res.val], p.bytes, Ok(0))
            ELSE p
      [] op.tag = "AddStack" ->
            LET p1 == pop(regs, bytes_, checks) IN
            IF p1.res.kind # "Ok" THEN p1
            ELSE LET p2 == pop(p1.registers, p1.bytes, checks) IN
                 IF p2.res.kind # "Ok" THEN p2
                 ELSE LET sum == add_u16(p1.res.val, p2.res.val, checks) IN
                      IF sum.kind = "panic"
                      THEN Out(p2.registers, p2.bytes, sum)
                      ELSE push(p2.registers, p2.bytes, sum.val, checks)
      [] op.tag = "AddRegister" ->
            LET sum == add_u16(regs[op.reg1], regs[op.reg2], checks) IN
            IF sum.kind = "panic" THEN Out(regs, bytes_, sum)
            ELSE Out([regs EXCEPT ![op.reg1] = sum.val], bytes_, Ok(0))
      [] op.tag = "Mov" ->
            Out([regs EXCEPT ![op.reg2] = regs[op.reg1]], bytes_, Ok(0))

\* the match of step on the decoded instruction
execute(op, regs, bytes_, checks) ==
    CASE op.tag = "Nop" -> Out(regs, bytes_, Ok(0))
      [] op.tag = "Push" -> push(regs, bytes_, op.arg, checks)
      [] op.tag = "PopRegister" ->
            LET p == pop(regs, bytes_, checks) IN
            IF p.res.kind = "Ok"
            THEN Out([p.registers EXCEPT ![op.reg1] = p.res.val], p.bytes, Ok(0))
            ELSE p
      [] op.tag = "AddStack" ->
            LET p1 == pop(regs, bytes_, checks) IN
            IF p1.res.kind # "Ok" THEN p1
            ELSE LET p2 == pop(p1.registers, p1.bytes, checks) IN
                 IF p2.res.kind # "Ok" THEN p2
                 ELSE LET sum == add_u16(p1.res.val, p2.res.val, checks) IN
                      IF sum.kind = "panic"
                      THEN Out(p2.registers, p2.bytes, sum)
                      ELSE push(p2.registers, p2.bytes, sum.val, checks)
      [] op.tag = "AddRegister" ->
            LET sum == add_u16(regs[op.reg1], regs[op.reg2], checks) IN
            IF sum.kind = "panic" THEN Out(regs, bytes_, sum)
            ELSE Out([regs EXCEPT ![op.reg1] = sum.val], bytes_, Ok(0))
      [] op.tag = "Mov" ->
            Out([regs EXCEPT ![op.reg1] = regs[op.reg2]], bytes_, Ok(0))

Unwrapped == Panic(<<"called Option::unwrap() on a None value">>)

\* the instruction is read at the advanced PC
step_fetch_after(regs, bytes_, checks) ==
    LET n == add_u16(regs[PC], 2, checks)
        instruction == read2(bytes_, n.val, checks)
    IN  CASE n.kind = "panic" -> Out(regs, bytes_, n)
          [] instruction.kind = "panic" -> Out(regs, bytes_, instruction)
          [] instruction.kind = "None" -> Out(regs, bytes_, Unwrapped)
          [] OTHER ->
                LET regs2 == [regs EXCEPT ![PC] = n.val]
                    d == parse_instruction(instruction.val)
                IN  IF d.kind = "Err"
                    THEN Out(regs2, bytes_, Err(d.msg))
                    ELSE execute(d.op, regs2, bytes_, checks)

\* the word is decoded, and a decode failure returned, before PC advances
step_parse_first(regs, bytes_, checks) ==
    LET pc == regs[PC]
        instruction == read2(bytes_, pc, checks)
    IN  CASE instruction.kind = "panic" -> Out(regs, bytes_, instruction)
          [] instruction.kind = "None" -> Out(regs, bytes_, Unwrapped)
          [] OTHER ->
                LET d == parse_instruction(instruction.val)
                    n == add_u16(pc, 2, checks)
                IN  CASE d.kind = "Err" -> Out(regs, bytes_, Err(d.msg))
                      [] n.kind = "panic" -> Out(regs, bytes_, n)
                      [] OTHER ->
                            execute(d.op, [regs EXCEPT ![PC] = n.val],
                                    bytes_, checks)

\* PC advances by one byte
step_advance_1(regs, bytes_, checks) ==
    LET pc == regs[PC]
        instruction == read2(bytes_, pc, checks)
    IN  CASE instruction.kind = "panic" -> Out(regs, bytes_, instruction)
          [] instruction.kind = "None" -> Out(regs, bytes_, Unwrapped)
          [] OTHER ->
                LET n == add_u16(pc, 1, checks) IN
                IF n.kind = "panic" THEN Out(regs, bytes_, n)
                ELSE LET regs2 == [regs EXCEPT ![PC] = n.val]
                         d == parse_instruction(instruction.val)
                     IN  IF d.kind = "Err"
                         THEN Out(regs2, bytes_, Err(d.msg))
                         ELSE execute(d.op, regs2, bytes_, checks)

\* a failed fetch is returned as an error after PC has been advanced
step_fetch_err(regs, bytes_, checks) ==
    LET pc == regs[PC]
        instruction == read2(bytes_, pc, checks)
        n == add_u16(pc, 2, checks)
    IN  CASE instruction.kind = "panic" -> Out(regs, bytes_, instruction)
          [] n.kind = "panic" -> Out(regs, bytes_, n)
          [] instruction.kind = "None" ->
                Out([regs EXCEPT ![PC] = n.val], bytes_,
                    Err(<<"Out of bounds fetch">>))
          [] OTHER ->
                LET regs2 == [regs EXCEPT ![PC] = n.val]
                    d == parse_instruction(instruction.val)
                IN  IF d.kind = "Err"
                    THEN Out(regs2, bytes_, Err(d.msg))
                    ELSE execute(d.op, regs2, bytes_, checks)

\* read2(PC).unwrap(); PC += 2; parse_instruction(..)?; match op
step(regs, bytes_, checks) ==
    LET pc == regs[PC]
        instruction == read2(bytes_, pc, checks)
    IN  CASE instruction.kind = "panic" -> Out(regs, bytes_, instruction)
          [] instruction.kind = "None" -> Out(regs, bytes_, Unwrapped)
          [] OTHER ->
                LET n == add_u16(pc, 2, checks) IN
                IF n.kind = "panic" THEN Out(regs, bytes_, n)
                ELSE LET regs2 == [regs EXCEPT ![PC] = n.val]
                         d == parse_instruction(instruction.val)
                     IN  IF d.kind = "Err"
                         THEN Out(regs2, bytes_, Err(d.msg))
                         ELSE execute(d.op, regs2, bytes_, checks)

----------------------------------------------------------------------------
(* The log of calls *)

Call(op_, a_, v_, res_, regs1, bytes1) ==
    [op |-> op_, a |-> a_, v |-> v_, res |-> res_, dec |-> NoDec,
     regs0 |-> registers, bytes0 |-> bytes,
     regs1 |-> regs1, bytes1 |-> bytes1]

Panicked == log # <<>> /\ log[Len(log)].res.kind = "panic"

\* the caller's call completes: the state and the log are updated together
Record(op_, a_, v_, res_, regs1, bytes1) ==
    /\ registers' = regs1
    /\ bytes' = bytes1
    /\ log' = Append(log, Call(op_, a_, v_, res_, regs1, bytes1))
    /\ UNCHANGED overflow_checks

Init ==
    /\ registers = NewRegisters
    /\ bytes = NewBytes
    /\ overflow_checks \in BOOLEAN
    /\ log = <<>>

----------------------------------------------------------------------------
(* Inputs *)

Addrs == {0, size - 2, size - 1, size, Word - 1}
ByteVals == {0, 52, 255}
WordVals == {255, 4660, 65280}

----------------------------------------------------------------------------
(* SpecMem: a caller using the memory capability directly (vm.memory) *)

MemRead(a) ==
    /\ ~Panicked
    /\ Record("read", a, 0, read(bytes, a), registers, bytes)

MemWrite(a, b) ==
    /\ ~Panicked
    /\ LET w == write(bytes, a, b) IN
       Record("write", a, b, w.res, registers, w.bytes)

MemRead2(a) ==
    /\ ~Panicked
    /\ Record("read2", a, 0, read2(bytes, a, overflow_checks), registers, bytes)

MemWrite2(a, v) ==
    /\ ~Panicked
    /\ LET w == write2(bytes, a, v, overflow_checks) IN
       Record("write2", a, v, w.res, registers, w.bytes)

MemMore == Len(log) < MaxMemCalls

NextMem ==
    \/ \E a \in Addrs : MemMore /\ MemRead(a)
    \/ \E a \in Addrs, b \in ByteVals : MemMore /\ MemWrite(a, b)
    \/ \E a \in Addrs : MemMore /\ MemRead2(a)
    \/ \E a \in Addrs, v \in WordVals : MemMore /\ MemWrite2(a, v)

SpecMem == Init /\ [][NextMem]_vars

----------------------------------------------------------------------------
(* A caller driving a fresh machine through push, pop and step, as the      *)
(* tests of vm.rs do (test_push_pop, test_add_stack).  Pushed words land at *)
(* address 0 upward, where step fetches them as instructions.               *)

VMPush(v) ==
    /\ ~Panicked
    /\ LET o == push(registers, bytes, v, overflow_checks) IN
       Record("push", 0, v, o.res, o.registers, o.bytes)

VMPop ==
    /\ ~Panicked
    /\ LET o == pop(registers, bytes, overflow_checks) IN
       Record("pop", 0, 0, o.res, o.registers, o.bytes)

VMStep ==
    /\ ~Panicked
    /\ LET o == step(registers, bytes, overflow_checks) IN
       Record("step", 0, 0, o.res, o.registers, o.bytes)

\* SpecStack: the stack primitives.  0x0402 is PopRegister SP, which a step
\* uses to move SP to the word pushed after it: 1, the last valid address,
\* or 0x0402 itself (beyond the memory).
StackVals == {1026, 1, size - 1, 4660}

StackMore == Len(log) < MaxStackCalls

NextStack ==
    \/ \E v \in StackVals : StackMore /\ VMPush(v)
    \/ StackMore /\ VMPop
    \/ StackMore /\ VMStep

SpecStack == Init /\ [][NextStack]_vars

\* SpecStep: programs.  0x0003 AddStack, 0x0402 PopRegister SP,
\* 0x0502 PopRegister PC, 0x0A02 PopRegister with register bits 10,
\* 0x0101 Push 1, 0xFFFF (opcode 0xFF), 0x0001 Push 0.
StepVals == {3, 1026, 1282, 2562, 257, 65535, 1}

StepMore == Len(log) < MaxStepCalls

NextStep ==
    \/ \E v \in StepVals : StepMore /\ VMPush(v)
    \/ StepMore /\ VMPop
    \/ StepMore /\ VMStep

SpecStep == Init /\ [][NextStep]_vars

----------------------------------------------------------------------------
(* SpecMain: src/bin/vm.rs.  main writes the program PUSH x, PUSH y,        *)
(* ADDSTACK, POP A byte by byte (address 5 is left as constructed) and      *)
(* calls step four times, returning at the first Err.                       *)

Program(x, y) ==
    <<<<0, 1>>, <<1, x>>, <<2, 1>>, <<3, y>>, <<4, 3>>, <<6, 2>>, <<7, 0>>>>

RECURSIVE write_all(_, _)
write_all(bytes_, writes) ==
    IF writes = <<>> THEN bytes_
    ELSE write_all(write(bytes_, Head(writes)[1], Head(writes)[2]).bytes,
                   Tail(writes))

MainLoad ==
    /\ log = <<>>
    /\ \E x \in 0 .. Byte - 1, y \in 0 .. Byte - 1 :
         Record("load", x, y, Ok(0), registers,
                write_all(bytes, Program(x, y)))

MainStep ==
    /\ log # <<>>
    /\ Len(log) < 1 + 4
    /\ log[Len(log)].res.kind = "Ok"
    /\ VMStep

NextMain ==
    \/ MainLoad
    \/ MainStep

SpecMain == Init /\ [][NextMain]_vars

----------------------------------------------------------------------------
(* SpecDecode: parse_instruction applied to every 16-bit word *)

ParseInstruction ==
    /\ log = <<>>
    /\ \E ins \in 0 .. Word - 1 :
         log' = <<[Call("parse_instruction", 0, ins, Ok(0), registers, bytes)
                     EXCEPT !.dec = parse_instruction(ins)]>>
    /\ UNCHANGED <<registers, bytes, overflow_checks>>

NextDecode == ParseInstruction

SpecDecode == Init /\ [][NextDecode]_vars

----------------------------------------------------------------------------
(* Claims about the memory capability *)

Calls == 1 .. Len(log)
Pairs == {i \in Calls : i + 1 \in Calls}

\* C4 as stated: for every 16-bit v and every address a < memory size,
\* write2(a, v) followed by read2(a) yields v.
C4_Original ==
    \A i \in Pairs :
        (/\ log[i].op = "write2" /\ log[i + 1].op = "read2"
         /\ log[i + 1].a = log[i].a
         /\ log[i].a < size)
        => log[i + 1].res = Some(log[i].v)

\* C4 amended: for every 16-bit v and every address a with a + 1 < memory size
\* (both bytes of the word in range), write2(a, v) returns true and a following
\* read2(a) yields v.
C4_RoundTrip ==
    \A i \in Pairs :
        (/\ log[i].op = "write2" /\ log[i + 1].op = "read2"
         /\ log[i + 1].a = log[i].a
         /\ log[i].a + 1 < size)
        => /\ log[i].res = Bool(TRUE)
           /\ log[i + 1].res = Some(log[i].v)

C4_Witness ==
    \E i \in Pairs :
        /\ log[i].op = "write2" /\ log[i + 1].op = "read2"
        /\ log[i + 1].a = log[i].a
        /\ log[i].a = size - 2
        /\ log[i].v = 4660
        /\ log[i + 1].res = Some(4660)

\* C7: read(a) is absent and write(a, b) is false for every a >= memory size,
\* and neither changes memory; for a < size, write(a, b) is true, changes only
\* byte a, and a following read(a) returns b.
C7_SingleByteBounds ==
    /\ \A i \in Calls :
        /\ (log[i].op = "read" /\ log[i].a >= size)
            => log[i].res = None /\ log[i].bytes1 = log[i].bytes0
        /\ (log[i].op = "write" /\ log[i].a >= size)
            => log[i].res = Bool(FALSE) /\ log[i].bytes1 = log[i].bytes0
        /\ (log[i].op = "write" /\ log[i].a < size)
            => /\ log[i].res = Bool(TRUE)
               /\ DOMAIN log[i].bytes1 = DOMAIN log[i].bytes0
               /\ \A j \in DOMAIN log[i].bytes0 :
                    log[i].bytes1[j] =
                        IF j = log[i].a THEN log[i].v ELSE log[i].bytes0[j]
    /\ \A i \in Pairs :
        (/\ log[i].op = "write" /\ log[i + 1].op = "read"
         /\ log[i + 1].a = log[i].a /\ log[i].a < size)
        => log[i + 1].res = Some(log[i].v)

C7_Witness ==
    \E i \in Pairs :
        /\ log[i].op = "write" /\ log[i].a = size /\ log[i].res = Bool(FALSE)
        /\ log[i + 1].op = "write" /\ log[i + 1].a = size - 1
        /\ log[i + 1].v = 255 /\ log[i + 1].bytes1[size - 1] = 255

----------------------------------------------------------------------------
(* Claims about the machine *)

Triples == {i \in Calls : i + 2 \in Calls}
Steps == {i \in Calls : log[i].op = "step"}

\* the 16-bit little-endian word at address a of a memory image
WordAt(bytes_, a) == bytes_[a] + bytes_[a + 1] * 256

\* the instruction word a step call fetched, when its PC was in range
Fetches(i) == log[i].regs0[PC] + 1 < size
Fetched(i) == WordAt(log[i].bytes0, log[i].regs0[PC])

\* C1: on a fresh machine, for every pair of 8-bit immediates x and y, the
\* program Push x, Push y, AddStack, PopRegister A loaded at address 0 and
\* stepped four times makes all four steps succeed and leaves A = x + y.
C1_MainProgram ==
    /\ \A i \in Steps : log[i].res = Ok(0)
    /\ Len(log) = 1 + 4 =>
        /\ log[1].op = "load"
        /\ log[1].regs0 = [r \in 0 .. 7 |-> 0]
        /\ \A a \in DOMAIN log[1].bytes0 : log[1].bytes0[a] = 0
        /\ \A i \in 2 .. 5 : log[i].op = "step"
        /\ registers[A] = log[1].a + log[1].v

C1_Witness ==
    /\ Len(log) = 1 + 4
    /\ log[1].a = 2 /\ log[1].v = 6
    /\ log[5].op = "step" /\ log[5].res = Ok(0)
    /\ registers[A] = 8

\* C2 as stated: for every 16-bit v, push(v) followed immediately by pop()
\* returns v and leaves SP equal to its value before the push.
C2_Original ==
    \A i \in Pairs :
        (log[i].op = "push" /\ log[i + 1].op = "pop")
        => /\ log[i + 1].res = Ok(log[i].v)
           /\ log[i + 1].regs1[SP] = log[i].regs0[SP]

\* C2 amended: for every 16-bit v, whenever push(v) succeeds, a pop() that
\* follows immediately returns v and leaves SP equal to its value before the
\* push.
C2_StackRoundTrip ==
    \A i \in Pairs :
        (log[i].op = "push" /\ log[i].res.kind = "Ok" /\ log[i + 1].op = "pop")
        => /\ log[i + 1].res = Ok(log[i].v)
           /\ log[i + 1].regs1[SP] = log[i].regs0[SP]

C2_Witness ==
    \E i \in Pairs :
        /\ log[i].op = "push" /\ log[i].res.kind = "Ok" /\ log[i].v = 4660
        /\ log[i].regs0[SP] = size - 2
        /\ log[i + 1].op = "pop" /\ log[i + 1].res = Ok(4660)

\* C3: for all 16-bit x and y, pushing x, then y, then executing one step
\* whose instruction is AddStack succeeds, leaves the word at SP-2 equal to
\* (x + y) mod 2^16 and SP 2 below its value before the step, and changes no
\* flag register.
C3_AddStack ==
    \A i \in Triples :
        (/\ log[i].op = "push" /\ log[i].res.kind = "Ok"
         /\ log[i + 1].op = "push" /\ log[i + 1].res.kind = "Ok"
         /\ log[i + 2].op = "step"
         /\ Fetches(i + 2) /\ Fetched(i + 2) % 256 = 3)
        => /\ log[i + 2].res = Ok(0)
           /\ log[i + 2].regs1[SP] = log[i + 2].regs0[SP] - 2
           /\ WordAt(log[i + 2].bytes1, log[i + 2].regs1[SP] - 2)
                = (log[i].v + log[i + 1].v) % 65536
           /\ log[i + 2].regs1[FLAGS] = log[i + 2].regs0[FLAGS]

\* the read of the 16-bit word at SP-2 fails: SP-2 is below zero or the word
\* does not lie inside the memory
PopReadFails(i) ==
    \/ log[i].regs0[SP] < 2
    \/ log[i].regs0[SP] - 2 + 1 >= size

\* C5: pop() fails with a stack-underflow error and leaves SP, every other
\* register and all memory unchanged whenever the 16-bit read at SP-2 fails,
\* SP = 0 on a fresh machine and SP = 1 included.
C5_PopUnderflow ==
    \A i \in Calls :
        (log[i].op = "pop" /\ PopReadFails(i))
        => /\ log[i].res = Err(<<"Stack underflow">>)
           /\ log[i].regs1 = log[i].regs0
           /\ log[i].bytes1 = log[i].bytes0

\* C6: push(v) fails with a stack-overflow error and leaves SP unchanged
\* whenever the 16-bit write at SP fails: for every SP >= memory size and for
\* SP = memory size - 1.
C6_PushOverflow ==
    \A i \in Calls :
        (log[i].op = "push" /\ log[i].regs0[SP] >= size - 1)
        => /\ log[i].res = Err(<<"Stack overflow">>)
           /\ log[i].regs1[SP] = log[i].regs0[SP]

C6_Witness ==
    \E i \in Calls :
        /\ log[i].op = "push" /\ log[i].regs0[SP] = size - 1
        /\ log[i].res = Err(<<"Stack overflow">>)
        /\ log[i].regs1[SP] = size - 1

\* the value a sequence of upper-case hexadecimal digits denotes
HexDigitValue(d) == (CHOOSE k \in 1 .. 16 : HexDigits[k] = d) - 1

RECURSIVE UnHex(_)
UnHex(digits) ==
    IF digits = <<>> THEN 0
    ELSE UnHex(SubSeq(digits, 1, Len(digits) - 1)) * 16
            + HexDigitValue(digits[Len(digits)])

\* C8: decode depends on the low byte as opcode: 0 Nop, 1 Push(high byte),
\* 2 PopRegister(r) with r = bits 8-11 when r <= 7, 3 AddStack,
\* 4 AddRegister(A, B), 5 Mov(A, B); a low byte outside 0-5 gives an
\* unknown-opcode error carrying that byte; low byte 2 with bits 8-11 >= 8
\* gives an unknown-register error carrying that value.
C8_DecodeCoverage ==
    \A i \in Calls :
        log[i].op = "parse_instruction" =>
            LET low == log[i].v % 256
                high == log[i].v \div 256
                r == high % 16
                d == log[i].dec
            IN  CASE low = 0 -> d = OkOp(MkOp("Nop", 0, 0, 0))
                  [] low = 1 -> d = OkOp(MkOp("Push", high, 0, 0))
                  [] low = 2 /\ r <= 7 ->
                        d = OkOp(MkOp("PopRegister", 0, r, 0))
                  [] low = 2 /\ r >= 8 ->
                        /\ d.kind = "Err"
                        /\ Head(d.msg) = "Unknown register 0x"
                        /\ UnHex(Tail(d.msg)) = r
                  [] low = 3 -> d = OkOp(MkOp("AddStack", 0, 0, 0))
                  [] low = 4 -> d = OkOp(MkOp("AddRegister", 0, 0, 1))
                  [] low = 5 -> d = OkOp(MkOp("Mov", 0, 0, 1))
                  [] OTHER ->
                        /\ d.kind = "Err"
                        /\ Head(d.msg) = "Unknown instruction 0x"
                        /\ UnHex(Tail(d.msg)) = low

C8_Witness ==
    \E i \in Calls :
        /\ log[i].op = "parse_instruction"
        /\ log[i].v = 7682
        /\ log[i].dec.kind = "Err"
        /\ log[i].dec.msg = <<"Unknown register 0x", "E">>

\* C9: whenever step returns an error of any kind, PC equals its pre-step
\* value plus 2.
C9_ErrorKeepsAdvance ==
    \A i \in Steps :
        log[i].res.kind = "Err" => log[i].regs1[PC] = log[i].regs0[PC] + 2

C9_Witness ==
    \E i \in Steps :
        /\ log[i].res = Err(<<"Stack overflow">>)
        /\ log[i].regs0[PC] = 2 /\ log[i].regs1[PC] = 4

\* C10 as stated: after every step that returns success, PC equals its
\* pre-step value plus 2.
C10_Original ==
    \A i \in Steps :
        log[i].res.kind = "Ok" => log[i].regs1[PC] = log[i].regs0[PC] + 2

\* the step's instruction is PopRegister with register bits naming PC
PopsIntoPC(i) ==
    /\ Fetched(i) % 256 = 2
    /\ (Fetched(i) \div 256) % 16 = 5

\* C10 amended: after every step that returns success and whose instruction
\* is not a PopRegister targeting PC, PC equals its pre-step value plus 2; a
\* successful PopRegister targeting PC leaves PC equal to the popped word.
C10_NoJumpButPopPC ==
    \A i \in Steps :
        log[i].res.kind = "Ok" =>
            IF PopsIntoPC(i)
            THEN log[i].regs1[PC]
                    = WordAt(log[i].bytes0, log[i].regs0[SP] - 2)
            ELSE log[i].regs1[PC] = log[i].regs0[PC] + 2

C10_Witness ==
    \E i \in Steps :
        /\ log[i].res.kind = "Ok"
        /\ Fetched(i) = 1026
        /\ log[i].regs1[SP] # log[i].regs0[SP] - 2
        /\ log[i].regs1[PC] = log[i].regs0[PC] + 2

----------------------------------------------------------------------------
(* SpecRun: a caller loads a program into the fresh machine's memory, word  *)
(* by word at the even addresses, and then only calls step (src/bin/vm.rs). *)
(* The caller may go on stepping after an Err; a panic ends the run.        *)

\* 0x0000 Nop, 0x0301 Push 3, 0x0002 PopRegister A, 0x0102 PopRegister B,
\* 0x0402 PopRegister SP, 0x0502 PopRegister PC, 0x0702 PopRegister FLAGS,
\* 0x0003 AddStack, 0x0004 AddRegister, 0x0005 Mov, 0x00FF (no opcode)
RunWords == {0, 769, 2, 258, 1026, 1282, 1794, 3, 4, 5, 255}

\* the addresses a program word can be written to
LoadAddrs == {a \in 0 .. size - 2 : a % 2 = 0}

RECURSIVE load_words(_, _, _)
load_words(bytes_, prog, a) ==
    IF a \notin DOMAIN prog THEN bytes_
    ELSE load_words(write2(bytes_, a, prog[a], FALSE).bytes, prog, a + 2)

RunLoad ==
    /\ log = <<>>
    /\ \E prog \in [LoadAddrs -> RunWords] :
         Record("load", 0, 0, Ok(0), registers, load_words(bytes, prog, 0))

RunStep ==
    /\ log # <<>>
    /\ Len(log) < 1 + MaxRunSteps
    /\ VMStep

NextRun ==
    \/ RunLoad
    \/ RunStep

SpecRun == Init /\ [][NextRun]_vars

----------------------------------------------------------------------------
(* Claims about runs of a program *)

\* step i fetched a PopRegister whose register bits name r
FetchedPopInto(i, r) ==
    /\ Fetches(i)
    /\ Fetched(i) % 256 = 2
    /\ (Fetched(i) \div 256) % 16 = r

\* C11 as stated: in every state reachable from a fresh machine by step
\* calls over any memory contents, PC is even, so every instruction word is
\* fetched at an even address.
C11_Original ==
    /\ registers[PC] % 2 = 0
    /\ \A i \in Steps : log[i].regs0[PC] % 2 = 0

\* C11 amended: in every state reachable from a fresh machine by step calls
\* over any memory contents in which no PopRegister targeting PC has
\* succeeded, PC is even and every instruction word was fetched at an even
\* address.
C11_EvenPC ==
    (\A i \in Steps : ~(FetchedPopInto(i, 5) /\ log[i].res.kind = "Ok"))
    => /\ registers[PC] % 2 = 0
       /\ \A i \in Steps : log[i].regs0[PC] % 2 = 0

C11_Witness ==
    /\ \A i \in Steps : ~FetchedPopInto(i, 5)
    /\ \E i \in Steps : Fetched(i) = 769 /\ log[i].res.kind = "Ok"
    /\ \E i \in Steps : FetchedPopInto(i, 4) /\ log[i].res.kind = "Ok"
    /\ registers[PC] = 6

----------------------------------------------------------------------------
(* SpecReg: test_add_register and test_mov of vm.rs.  The test assigns      *)
(* registers A and B of a fresh machine directly, writes the opcode byte    *)
(* (and here also the operand byte) of the word at address 0, and steps.    *)

RegVals == {0, 8, 9, 4660, 22136, 32768, 65535}
RegOpcodes == {4, 5}
RegOperands == {0, 1, 16, 167, 255}

RegSetup ==
    /\ log = <<>>
    /\ \E a \in RegVals, b \in RegVals, o \in RegOpcodes, h \in RegOperands :
         Record("setup", a, b, Ok(0),
                [registers EXCEPT ![A] = a, ![B] = b],
                write(write(bytes, 0, o).bytes, 1, h).bytes)

RegStep ==
    /\ log # <<>>
    /\ Len(log) < 1 + MaxRegSteps
    /\ VMStep

NextReg ==
    \/ RegSetup
    \/ RegStep

SpecReg == Init /\ [][NextReg]_vars

----------------------------------------------------------------------------
(* Claims about the register instructions *)

\* registers other than those in `except` are as before step i
RegsKept(i, except) ==
    \A r \in 0 .. 7 : r \notin except => log[i].regs1[r] = log[i].regs0[r]

\* C12: for all 16-bit a and b, with A = a, B = b and a word with low byte 4
\* at PC, one step succeeds and leaves A = (a + b) mod 2^16 and B = b; SP,
\* the other registers and memory are unchanged and PC advances by 2.
C12_AddRegister ==
    \A i \in Steps :
        (Fetches(i) /\ Fetched(i) % 256 = 4)
        => /\ log[i].res = Ok(0)
           /\ log[i].regs1[0]
                = (log[i].regs0[0] + log[i].regs0[1]) % 65536
           /\ log[i].regs1[5] = log[i].regs0[5] + 2
           /\ RegsKept(i, {0, 5})
           /\ log[i].bytes1 = log[i].bytes0

\* C13: for every word with low byte 5, whatever its high byte, one step
\* sets A to the value of B and leaves B, every other register except PC,
\* and memory unchanged; for every word with low byte 4, whatever its high
\* byte, the step does what it does for the word 0x0004.
C13_FixedOperands ==
    \A i \in Steps :
        /\ (Fetches(i) /\ Fetched(i) % 256 = 5)
            => /\ log[i].res = Ok(0)
               /\ log[i].regs1[0] = log[i].regs0[1]
               /\ RegsKept(i, {0, 5})
               /\ log[i].bytes1 = log[i].bytes0
        /\ (Fetches(i) /\ Fetched(i) % 256 = 4)
            => LET pc == log[i].regs0[5]
                   plain == step(log[i].regs0,
                                 [log[i].bytes0 EXCEPT ![pc + 1] = 0],
                                 overflow_checks)
               IN  /\ log[i].res = plain.res
                   /\ log[i].regs1 = plain.registers
                   /\ log[i].bytes1 = log[i].bytes0

C13_Witness ==
    \E i \in Steps :
        /\ Fetched(i) = 167 * 256 + 5
        /\ log[i].regs0[0] = 4660 /\ log[i].regs0[1] = 22136
        /\ log[i].regs1[0] = 22136 /\ log[i].regs1[1] = 22136

\* C14: when the 16-bit read at PC fails (PC >= memory size - 1), step
\* returns neither success nor a typed error but ends in the fatal condition
\* of unwrapping an absent word, and has changed no register (PC included)
\* and no memory byte.
C14_FetchOutOfBounds ==
    \A i \in Steps :
        log[i].regs0[5] >= size - 1
        => /\ log[i].res.kind = "panic"
           /\ log[i].res.msg = <<"called Option::unwrap() on a None value">>
           /\ log[i].regs1 = log[i].regs0
           /\ log[i].bytes1 = log[i].bytes0
           /\ i = Len(log)
           /\ registers = log[i].regs0
           /\ bytes = log[i].bytes0

C14_Witness ==
    \E i \in Steps :
        /\ log[i].regs0[5] = size - 1
        /\ log[i].res.kind = "panic"
        /\ log[i].regs1[5] = size - 1

----------------------------------------------------------------------------
(* SpecPartial: 16-bit writes at the end of memory, directly (write2 on     *)
(* vm.memory) and through push once a PopRegister SP step has moved SP.     *)

PartialAddrs == {size - 2, size - 1}
PartialVals == {1026, size - 1, 4660}

PartialMore == Len(log) < MaxPartialCalls

NextPartial ==
    \/ \E a \in PartialAddrs : PartialMore /\ MemWrite2(a, 4660)
    \/ \E v \in PartialVals : PartialMore /\ VMPush(v)
    \/ PartialMore /\ VMStep

SpecPartial == Init /\ [][NextPartial]_vars

\* the memory image b with byte a set to v, and nothing else changed
OnlyByte(b1, b0, a, v) ==
    /\ DOMAIN b1 = DOMAIN b0
    /\ \A j \in DOMAIN b0 : b1[j] = IF j = a THEN v ELSE b0[j]

\* C15: write2(a, v) with a = memory size - 1 returns false and leaves the
\* byte at a overwritten with the low byte of v; a push that fails at
\* SP = memory size - 1 leaves SP unchanged and has written that byte too.
C15_PartialWrite ==
    \A i \in Calls :
        /\ (log[i].op = "write2" /\ log[i].a = size - 1)
            => /\ log[i].res = Bool(FALSE)
               /\ OnlyByte(log[i].bytes1, log[i].bytes0,
                           size - 1, log[i].v % 256)
        /\ (log[i].op = "push" /\ log[i].regs0[4] = size - 1)
            => /\ log[i].res = Err(<<"Stack overflow">>)
               /\ log[i].regs1 = log[i].regs0
               /\ OnlyByte(log[i].bytes1, log[i].bytes0,
                           size - 1, log[i].v % 256)

C15_Witness ==
    /\ \E i \in Calls :
        /\ log[i].op = "write2" /\ log[i].a = size - 1
        /\ log[i].res = Bool(FALSE)
        /\ log[i].bytes0[size - 1] = 0 /\ log[i].bytes1[size - 1] = 52
    /\ \E i \in Calls :
        /\ log[i].op = "push" /\ log[i].regs0[4] = size - 1
        /\ log[i].res.kind = "Err"
        /\ log[i].bytes1[size - 1] # log[i].bytes0[size - 1]

----------------------------------------------------------------------------
(* SpecCopy: a caller fills the memory with distinct bytes (single-byte     *)
(* writes, as main does) and calls copy on vm.memory.                       *)

\* the byte written at address k: ascending from 16, or descending from 255
Pattern(p, k) == IF p = 0 THEN 16 + k ELSE 255 - k

Fill(p) == [k \in 1 .. size |-> <<k - 1, Pattern(p, k - 1)>>]

CopyAddrs == {0, 1, 2, size - 2, size - 1, size, Word - 1}

CopySetup ==
    /\ log = <<>>
    /\ \E p \in {0, 1} :
         Record("fill", p, 0, Ok(0), registers, write_all(bytes, Fill(p)))

MemCopy ==
    /\ log # <<>>
    /\ ~Panicked
    /\ Len(log) < 1 + MaxCopyCalls
    /\ \E from \in CopyAddrs, to \in CopyAddrs, n \in 0 .. MaxCount :
         LET c == copy(bytes, from, to, n, overflow_checks) IN
         /\ bytes' = c.bytes
         /\ log' = Append(log, [n |-> n]
                               @@ Call("copy", from, to, c.res,
                                       registers, c.bytes))
         /\ UNCHANGED <<registers, overflow_checks>>

NextCopy ==
    \/ CopySetup
    \/ MemCopy

SpecCopy == Init /\ [][NextCopy]_vars

Copies == {i \in Calls : log[i].op = "copy"}

\* the indices of copy call i at which the read or the write is out of range
CopyFails(i) ==
    {k \in 0 .. log[i].n - 1 :
        log[i].a + k >= size \/ log[i].v + k >= size}

\* the number of bytes copy call i copies before it stops
Copied(i) ==
    IF CopyFails(i) = {} THEN log[i].n
    ELSE CHOOSE k \in CopyFails(i) : \A m \in CopyFails(i) : k <= m

\* the byte ascending iteration leaves at address j of the destination: the
\* source byte, or, when the destination starts d bytes above the source,
\* the byte that an earlier iteration copied there
CopiedByte(i, j) ==
    LET from == log[i].a
        to == log[i].v
        k == j - to
    IN  IF to > from
        THEN log[i].bytes0[from + (k % (to - from))]
        ELSE log[i].bytes0[from + k]

\* C16: the result and final memory of copy(from, to, count) are those of
\* mem[to+i] := mem[from+i] for i = 0 .. count-1 in ascending order,
\* stopping with false at the first out-of-range read or write and giving
\* true otherwise; bytes written before the failing index stay written, and
\* with to > from in overlapping ranges an already overwritten source byte
\* is what gets copied.
C16_CopyAscending ==
    \A i \in Copies :
        /\ log[i].res = Bool(CopyFails(i) = {})
        /\ DOMAIN log[i].bytes1 = DOMAIN log[i].bytes0
        /\ \A j \in DOMAIN log[i].bytes0 :
            log[i].bytes1[j] =
                IF j >= log[i].v /\ j < log[i].v + Copied(i)
                THEN CopiedByte(i, j)
                ELSE log[i].bytes0[j]

C16_Witness ==
    \E i \in Copies :
        /\ log[i].a = 0 /\ log[i].v = 1 /\ log[i].n = 4
        /\ log[i].res = Bool(TRUE)
        /\ \A j \in 1 .. 4 : log[i].bytes1[j] = log[i].bytes0[0]
        /\ log[i].bytes0[1] # log[i].bytes0[0]

----------------------------------------------------------------------------
\* step i fetches AddStack with SP such that the first pop's read at SP-2
\* succeeds and the second pop's read at SP-4 cannot
SecondPopFails(i) ==
    /\ Fetches(i) /\ Fetched(i) % 256 = 3
    /\ log[i].regs0[SP] >= 2 /\ log[i].regs0[SP] - 2 + 1 < size
    /\ log[i].regs0[SP] - 2 < 2

\* C17: when an AddStack step's first pop succeeds and its second pop fails
\* (SP = 2 before the step), step returns stack underflow with SP left 2
\* below its pre-step value (the first pop is not undone), nothing is pushed
\* and memory is unchanged.
C17_AddStackPartial ==
    \A i \in Steps :
        SecondPopFails(i)
        => /\ log[i].res = Err(<<"Stack underflow">>)
           /\ log[i].regs1[SP] = log[i].regs0[SP] - 2
           /\ log[i].bytes1 = log[i].bytes0

----------------------------------------------------------------------------
\* no step so far fetched a PopRegister whose target is SP or PC
NoPopIntoSPorPC ==
    \A i \in Steps : ~FetchedPopInto(i, SP) /\ ~FetchedPopInto(i, PC)

\* the addresses whose byte call i changed
Changed(i) ==
    {j \in DOMAIN log[i].bytes0 : log[i].bytes1[j] # log[i].bytes0[j]}

\* C18: from a fresh machine driven only through step, as long as no
\* executed instruction is a PopRegister targeting SP or PC, SP is even and
\* SP <= PC in every reachable state, and a step writes only to addresses
\* below the next instruction to fetch.
C18_StackBelowProgram ==
    NoPopIntoSPorPC
    => /\ registers[SP] % 2 = 0
       /\ registers[SP] <= registers[PC]
       /\ \A i \in Steps :
            /\ log[i].regs1[SP] % 2 = 0
            /\ log[i].regs1[SP] <= log[i].regs1[PC]
            /\ \A j \in Changed(i) : j < log[i].regs1[PC]

C18_Witness ==
    /\ NoPopIntoSPorPC
    /\ registers[SP] = 4 /\ registers[PC] = 4
    /\ \E i \in Steps :
        /\ Fetched(i) % 256 = 1 /\ log[i].res = Ok(0)
        /\ log[i].regs0[SP] = 2
        /\ Changed(i) = {2, 3}

----------------------------------------------------------------------------
\* the step calls that returned to the caller, with Ok or Err
Returned == {i \in Steps : log[i].res.kind # "panic"}

\* on all-zero memory of even size N the first N/2 steps are Nops changing
\* only PC, and the step after them is the out-of-bounds fetch at PC = N
ZeroRun ==
    (size % 2 = 0 /\ log # <<>> /\ log[1].bytes1 = NewBytes)
    => \A i \in Steps :
        IF i - 1 <= size \div 2
        THEN /\ log[i].res = Ok(0)
             /\ log[i].regs1 = [log[i].regs0 EXCEPT ![PC] = @ + 2]
             /\ log[i].bytes1 = log[i].bytes0
        ELSE /\ log[i].res = Unwrapped
             /\ log[i].regs0[PC] = size

\* C19: on a fresh machine whose memory of even size N is all zero, exactly
\* N/2 consecutive steps succeed as Nop, each changing nothing but PC, and
\* the next step hits the out-of-bounds fetch with PC = N; for any memory
\* contents, if no PopRegister targeting PC is executed, at most N/2 steps
\* return and the stepping ends at the out-of-bounds fetch.
C19_RunsOffTheEnd ==
    /\ ZeroRun
    /\ (\A i \in Steps : ~FetchedPopInto(i, PC))
       => /\ Cardinality(Returned) <= size \div 2
          /\ \A i \in Steps :
                log[i].res.kind = "panic"
                => ~Fetches(i) /\ log[i].res = Unwrapped

----------------------------------------------------------------------------
\* the opcode byte of the instruction step i fetched
Opcode(i) == Fetched(i) % 256

\* step i is a PopRegister naming register r that succeeded
PoppedInto(i, r) == FetchedPopInto(i, r) /\ log[i].res = Ok(0)

\* C20: in any step, each of B, C, M, BP and FLAGS changes only if the step
\* is a successful PopRegister naming that register; A changes only on a
\* successful PopRegister A, AddRegister or Mov; and memory changes only in
\* a Push or AddStack step.
C20_Frame ==
    \A i \in Steps :
        /\ \A r \in {B, C, M, BP, FLAGS} :
            log[i].regs1[r] # log[i].regs0[r] => PoppedInto(i, r)
        /\ log[i].regs1[A] # log[i].regs0[A]
            => \/ PoppedInto(i, A)
               \/ Fetches(i) /\ Opcode(i) \in {4, 5} /\ log[i].res = Ok(0)
        /\ Changed(i) # {}
            => Fetches(i) /\ Opcode(i) \in {1, 3}

C20_Witness ==
    \E i \in Steps, j \in Steps :
        /\ i < j
        /\ PoppedInto(i, B) /\ log[i].regs1[B] = 3 /\ log[i].regs0[B] = 0
        /\ log[i].bytes1 = log[i].bytes0
        /\ Opcode(j) = 5 /\ log[j].res = Ok(0)
        /\ log[j].regs0[A] = 0 /\ log[j].regs1[A] = 3
        /\ log[j].regs1[B] = 3

====
